---- MODULE Spec2Model ----
(***************************************************************************)
(* Sunil Stores billing software (src/main.py): the SQLite store (Items,   *)
(* Customers, Purchases, StockAdjustments, Settings, BillNumbers), the     *)
(* bill-number counter, the item / customer / stock-adjustment dialogs,    *)
(* purchase entry, the billing table and print_and_finish.                 *)
(*                                                                         *)
(* Numbers are exact rationals <<n, d>> (Python floats without rounding).  *)
(* A line-edit text or a stored cell is one of                             *)
(*   Txt(s)    a text that is not a numeral ("" or ".")                    *)
(*   NumTxt(v) the decimal numeral of v, as typed or as str() renders it   *)
(*   Real(v)   a REAL stored by SQLite / a Python float                    *)
(* The bill number is kept as its decimal digits, as Settings.Value is.    *)
(***************************************************************************)
EXTENDS Integers, Sequences, FiniteSets, TLC

\* ---------------------------------------------------------------- bounds
\* every run is at most MaxOps handler invocations long
MaxOps == 3
\* a run at the billing table of a stocked shop is at most MaxBillOps long
MaxBillOps == 5

\* ------------------------------------------------------- program constants
FirstBillNo == 1000

\* --------------------------------------------------------------- numbers
Abs(n) == IF n < 0 THEN 0 - n ELSE n

RECURSIVE GCD(_, _)
GCD(a, b) == IF b = 0 THEN a ELSE GCD(b, a % b)

Rat(n, d) ==
    LET s == IF d < 0 THEN 0 - 1 ELSE 1
        g == GCD(Abs(n), Abs(d))
    IN  <<(s * n) \div g, (s * d) \div g>>

Zero == <<0, 1>>
RInt(n) == <<n, 1>>
RAdd(a, b) == Rat(a[1] * b[2] + b[1] * a[2], a[2] * b[2])
RNeg(a) == <<0 - a[1], a[2]>>
RMul(a, b) == Rat(a[1] * b[1], a[2] * b[2])
RDiv(a, b) == Rat(a[1] * b[2], a[2] * b[1])
RPos(a) == a[1] > 0

\* ----------------------------------------------------- texts and cells
Txt(s) == [k |-> "text", s |-> s]
NumTxt(v) == [k |-> "numtext", v |-> v]
Real(v) == [k |-> "real", v |-> v]
Empty == Txt("")
Junk == Txt(".")

\* QLineEdit.text() is falsy exactly when it is the empty string
IsEmptyText(t) == t = Empty

\* Python float(text): defined on numerals only, ValueError otherwise
CanFloat(t) == t.k = "numtext"
Float(t) == t.v

\* Python truthiness of a value fetched from a REAL column
Truthy(c) == IF c.k = "real" THEN c.v # Zero ELSE c.s # ""

\* Python float(x) of a value fetched from a REAL column
CanFloatCell(c) == c.k = "real"

\* SQLite REAL column affinity applied to a bound text parameter
RealAffinity(t) == IF t.k = "numtext" THEN Real(t.v) ELSE t

\* SQLite numeric value of a cell in arithmetic ('' and '.' count as 0)
SqlNum(c) == IF c.k = "real" THEN c.v ELSE Zero

\* Python str(x or "") for a value fetched from a REAL column
StrOrEmpty(c) == IF Truthy(c) THEN (IF c.k = "real" THEN NumTxt(c.v) ELSE c) ELSE Empty

\* Python str(int) and int(str) on decimal digits
RECURSIVE IntToDigits(_)
IntToDigits(n) == IF n < 10 THEN <<n>> ELSE Append(IntToDigits(n \div 10), n % 10)

RECURSIVE DigitsToInt(_)
DigitsToInt(s) ==
    IF Len(s) = 0 THEN 0
    ELSE 10 * DigitsToInt(SubSeq(s, 1, Len(s) - 1)) + s[Len(s)]

\* ------------------------------------------------------------ input sets
ItemNames == {"rice", "soap"}
NameTexts == ItemNames \cup {""}
CodeTexts == {"", "c1"}
BaseTexts == {"", "Bag"}
\* what the user enters besides Name, Code, Base Unit:
\* <<Secondary Unit, Conversion Rate, Rate A, Rate B, Rate C, Opening Stock>>
ItemProfiles ==
    {<<"", Empty, NumTxt(RInt(10)), Empty, Empty, Empty>>,
     <<"Pcs", NumTxt(RInt(2)), NumTxt(RInt(10)), NumTxt(RInt(8)), NumTxt(RInt(6)),
       NumTxt(RInt(0))>>,
     <<"Bag", NumTxt(RInt(2)), NumTxt(RInt(10)), NumTxt(RInt(8)), NumTxt(RInt(6)),
       NumTxt(RInt(4))>>,
     <<"Pcs", NumTxt(RInt(2)), NumTxt(RInt(10)), Empty, Empty, Empty>>,
     <<"Pcs", Junk, NumTxt(RInt(10)), NumTxt(RInt(8)), NumTxt(RInt(6)),
       NumTxt(RInt(4))>>}
QtyTexts == {Empty, Junk, NumTxt(RInt(2))}
AdjQtyTexts == {Empty, Junk, NumTxt(RInt(0 - 2))}
UnitTexts == {"", "Bag", "Pcs"}
ReasonTexts == {"", "damaged"}
CustomerNames == {"", "amit"}
\* what the editable customer combo of the billing tab can hold
CustomerTexts == CustomerNames \cup {"amit kumar sharma"}
\* a custom price typed into the rate cell (acceptable to its validator)
PriceTexts == {NumTxt(RInt(7))}
AreaTexts == {"", "north"}

\* the widget state of an ItemDialog when OK is pressed
Form(n, c, b, p) ==
    [name |-> n, code |-> c, category |-> "", hsn |-> "", baseunit |-> b,
     secondaryunit |-> p[1], conversion |-> p[2], ratea |-> p[3],
     rateb |-> p[4], ratec |-> p[5], purchaserate |-> Empty, stockqty |-> p[6],
     alertlevel |-> Empty, imagepath |-> ""]

\* forms with the required fields filled
ValidItemForms ==
    { Form(n, c, "Bag", p) : n \in ItemNames, c \in CodeTexts, p \in ItemProfiles }

\* forms with a required field blank (the optional fields left blank)
InvalidItemForms ==
    { Form(n, "", b, <<"", Empty, ra, Empty, Empty, Empty>>) :
      n \in NameTexts, b \in BaseTexts, ra \in {Empty, NumTxt(RInt(10))} }
    \ ValidItemForms

ItemForms == ValidItemForms \cup InvalidItemForms

\* ------------------------------------------------------------------ state
VARIABLES
    Items,             \* table Items, in ItemID order (ItemID = index)
    Customers,         \* table Customers, in CustomerID order
    Purchases,         \* table Purchases, in PurchaseID order
    StockAdjustments,  \* table StockAdjustments, in AdjID order
    Settings,          \* table Settings: Key -> Value
    BillNumbers,       \* table BillNumbers (rows)
    bill_no,           \* BillingTab.bill_no label, the digits after "Bill No: "
    table,             \* BillingTab.table, the rows' cell widgets
    summary,           \* BillingTab subtotal / total qty / grand total labels
    last,              \* the handler that ran last, its inputs and its outcome
    ops,               \* history: number of handler invocations so far
    lastPrinted,       \* history: number of the bill printed before the last one
    ledger,            \* history: per ItemID, opening stock and transaction sum
    budget             \* history: how many handler invocations the run may have

store == <<Items, Customers, Purchases, StockAdjustments, Settings, BillNumbers>>
vars == <<Items, Customers, Purchases, StockAdjustments, Settings, BillNumbers,
          bill_no, table, summary, last, ops, lastPrinted, ledger, budget>>

\* ----------------------------------------------------------------- store
\* SELECT ... FROM Items WHERE Name=? ; fetchone(): index of the row, 0 if none
FindItem(items, name) ==
    IF \E i \in 1..Len(items) : items[i].Name = name
    THEN CHOOSE i \in 1..Len(items) :
            /\ items[i].Name = name
            /\ \A j \in 1..(i - 1) : items[j].Name # name
    ELSE 0

FindCustomer(customers, name) ==
    IF \E i \in 1..Len(customers) : customers[i].Name = name
    THEN CHOOSE i \in 1..Len(customers) :
            /\ customers[i].Name = name
            /\ \A j \in 1..(i - 1) : customers[j].Name # name
    ELSE 0

\* mutant: INSERT OR REPLACE of the initial bill number
InitDbReplace(settings) == [k \in {"LastBillNo"} |-> IntToDigits(FirstBillNo)]

\* init_db: CREATE TABLE IF NOT EXISTS keeps the rows; INSERT OR IGNORE
InitDb(settings) ==
    IF "LastBillNo" \in DOMAIN settings
    THEN settings
    ELSE [k \in {"LastBillNo"} |-> IntToDigits(FirstBillNo)]

\* get_next_bill_no: the number returned and the Settings table it leaves
NextBillNo(settings) == DigitsToInt(settings["LastBillNo"]) + 1

\* mutant: the UPDATE of Settings is left out
GetNextBillNoNoUpdate(settings) ==
    [no |-> NextBillNo(settings), settings |-> settings]

GetNextBillNo(settings) ==
    [no |-> NextBillNo(settings),
     settings |-> [settings EXCEPT !["LastBillNo"] = IntToDigits(NextBillNo(settings))]]

\* mutant: the conversion multiplies instead of dividing
ToBaseQtyMultiplied(row, unit, q) ==
    IF unit = row.SecondaryUnit /\ Truthy(row.ConversionRate)
    THEN RMul(q, row.ConversionRate.v)
    ELSE q

\* update_stock's conversion of qty_change to the base unit
ToBaseQty(row, unit, q) ==
    IF unit = row.SecondaryUnit /\ Truthy(row.ConversionRate)
    THEN RDiv(q, row.ConversionRate.v)
    ELSE q

\* update_stock: the Items table it leaves, and whether it raised
UpdateStock(items, item_name, unit, qty_change) ==
    LET i == FindItem(items, item_name) IN
    IF i = 0 THEN [items |-> items, raised |-> FALSE]
    ELSE IF /\ unit = items[i].SecondaryUnit
            /\ Truthy(items[i].ConversionRate)
            /\ ~CanFloatCell(items[i].ConversionRate)
    THEN [items |-> items, raised |-> TRUE]
    ELSE [items |-> [j \in 1..Len(items) |->
                        IF items[j].Name = item_name
                        THEN [items[j] EXCEPT !.StockQty =
                                Real(RAdd(SqlNum(@), ToBaseQty(items[i], unit, qty_change)))]
                        ELSE items[j]],
          raised |-> FALSE]

\* ------------------------------------------------------------ ItemDialog
\* the column values an Items row gets from the dialog's widgets
ItemRow(f) ==
    [Name |-> f.name, Code |-> f.code, Category |-> f.category, HSN |-> f.hsn,
     BaseUnit |-> f.baseunit, SecondaryUnit |-> f.secondaryunit,
     ConversionRate |-> RealAffinity(f.conversion),
     RateA |-> RealAffinity(f.ratea), RateB |-> RealAffinity(f.rateb),
     RateC |-> RealAffinity(f.ratec),
     PurchaseRate |-> RealAffinity(f.purchaserate),
     StockQty |-> RealAffinity(f.stockqty),
     AlertLevel |-> RealAffinity(f.alertlevel), ImagePath |-> f.imagepath]

\* ItemDialog.load_item: the widgets' contents after loading a stored row
LoadItem(row) ==
    [name |-> row.Name, code |-> row.Code, category |-> row.Category,
     hsn |-> row.HSN, baseunit |-> row.BaseUnit,
     secondaryunit |-> row.SecondaryUnit,
     conversion |-> StrOrEmpty(row.ConversionRate),
     ratea |-> StrOrEmpty(row.RateA), rateb |-> StrOrEmpty(row.RateB),
     ratec |-> StrOrEmpty(row.RateC),
     purchaserate |-> StrOrEmpty(row.PurchaseRate),
     stockqty |-> StrOrEmpty(row.StockQty),
     alertlevel |-> StrOrEmpty(row.AlertLevel), imagepath |-> row.ImagePath]

RequiredFilled(f) == f.name # "" /\ f.baseunit # "" /\ ~IsEmptyText(f.ratea)

OptionalsBlank(f) ==
    /\ f.code = "" /\ f.category = "" /\ f.hsn = "" /\ f.secondaryunit = ""
    /\ f.imagepath = ""
    /\ \A t \in {f.conversion, f.rateb, f.ratec, f.purchaserate, f.stockqty,
                 f.alertlevel} : IsEmptyText(t)

\* Code TEXT UNIQUE: '' is a value like any other (only NULLs are exempt)
CodeTaken(items, code, exceptName) ==
    \E j \in 1..Len(items) : items[j].Code = code /\ items[j].Name # exceptName

\* mutant: the validation forgets Rate A
ItemAcceptRateUnchecked(items, f) ==
    IF f.name = "" \/ f.baseunit = "" THEN [items |-> items, outcome |-> "validation"]
    ELSE IF FindItem(items, f.name) # 0
    THEN IF CodeTaken(items, f.code, f.name)
         THEN [items |-> items, outcome |-> "duplicate"]
         ELSE [items |-> [j \in 1..Len(items) |->
                            IF items[j].Name = f.name THEN ItemRow(f) ELSE items[j]],
               outcome |-> "updated"]
    ELSE IF CodeTaken(items, f.code, "")
         THEN [items |-> items, outcome |-> "duplicate"]
         ELSE [items |-> Append(items, ItemRow(f)), outcome |-> "inserted"]

\* ItemDialog.accept: outcome and the Items table it leaves
ItemAccept(items, f) ==
    IF ~RequiredFilled(f) THEN [items |-> items, outcome |-> "validation"]
    ELSE IF FindItem(items, f.name) # 0
    THEN IF CodeTaken(items, f.code, f.name)
         THEN [items |-> items, outcome |-> "duplicate"]
         ELSE [items |-> [j \in 1..Len(items) |->
                            IF items[j].Name = f.name THEN ItemRow(f) ELSE items[j]],
               outcome |-> "updated"]
    ELSE IF CodeTaken(items, f.code, "")
         THEN [items |-> items, outcome |-> "duplicate"]
         ELSE [items |-> Append(items, ItemRow(f)), outcome |-> "inserted"]

\* history: what Opening Stock the dialog entered, as a number
Opening(f) == SqlNum(RealAffinity(f.stockqty))

LedgerAfterSave(lg, items, f, outcome) ==
    IF outcome = "inserted"
    THEN Append(lg, [first |-> Opening(f), latest |-> Opening(f), txn |-> Zero])
    ELSE IF outcome = "updated"
    THEN [lg EXCEPT ![FindItem(items, f.name)].latest = Opening(f)]
    ELSE lg

\* one more handler invocation, within the bound on the length of a run
Tick == ops < budget /\ ops' = ops + 1 /\ budget' = budget

ItemDialogAccept(mode, f) ==
    LET r == ItemAccept(Items, f) IN
    /\ Tick
    /\ Items' = r.items
    /\ ledger' = LedgerAfterSave(ledger, Items, f, r.outcome)
    /\ last' = [op |-> "ItemDialog.accept", mode |-> mode, name |-> f.name,
                code |-> f.code, required |-> RequiredFilled(f),
                optionalsBlank |-> OptionalsBlank(f), outcome |-> r.outcome]
    /\ UNCHANGED <<Customers, Purchases, StockAdjustments, Settings, BillNumbers,
                   bill_no, table, summary, lastPrinted>>

\* ItemsTab.add_item: a blank dialog, filled in by the user, OK pressed
AddItemAccept ==
    \E f \in ItemForms : ItemDialogAccept("add", f)

\* ItemsTab.edit_item: the dialog loads the selected item, OK pressed unedited
EditItemAccept ==
    \E i \in 1..Len(Items) : ItemDialogAccept("edit", LoadItem(Items[i]))

\* -------------------------------------------------------- CustomerDialog
CustomerAccept ==
    /\ Tick
    /\ \E n \in CustomerNames, a \in AreaTexts :
         LET i == FindCustomer(Customers, n)
             outcome == IF n = "" THEN "validation"
                        ELSE IF i # 0 THEN "updated" ELSE "inserted"
         IN
         /\ Customers' =
              IF outcome = "validation" THEN Customers
              ELSE IF outcome = "updated"
              THEN [j \in 1..Len(Customers) |->
                      IF Customers[j].Name = n
                      THEN [Customers[j] EXCEPT !.GSTIN = "", !.Area = a]
                      ELSE Customers[j]]
              ELSE Append(Customers, [Name |-> n, GSTIN |-> "", Area |-> a])
         /\ last' = [op |-> "CustomerDialog.accept", name |-> n, outcome |-> outcome]
         /\ UNCHANGED <<Items, Purchases, StockAdjustments, Settings, BillNumbers,
                        bill_no, table, summary, lastPrinted, ledger>>

\* ---------------------------------------------------------- PurchasesTab
\* history: a transaction of q in unit, in base units
LedgerAfterTxn(lg, items, item_name, unit, q) ==
    LET i == FindItem(items, item_name) IN
    IF i = 0 THEN lg
    ELSE [lg EXCEPT ![i].txn =
            RAdd(@, IF /\ unit = items[i].SecondaryUnit
                       /\ items[i].ConversionRate.k = "real"
                       /\ items[i].ConversionRate.v # Zero
                    THEN RDiv(q, items[i].ConversionRate.v)
                    ELSE q)]

\* PurchasesTab.update_units: what the unit combo can show: nothing, or the
\* base or secondary unit of a stored item
ComboUnits(items) ==
    {""} \cup {items[i].BaseUnit : i \in 1..Len(items)}
         \cup {items[i].SecondaryUnit : i \in 1..Len(items)}

\* PurchasesTab.add_stock with the widgets' contents item, unit, qty, rate
AddStock ==
    /\ Tick
    /\ \E item \in NameTexts, unit \in ComboUnits(Items), qty \in QtyTexts,
          rate \in {Empty} :
         LET valid == item # "" /\ unit # "" /\ ~IsEmptyText(qty)
             us == UpdateStock(Items, item, unit, Float(qty))
             outcome == IF ~valid THEN "validation"
                        ELSE IF ~CanFloat(qty) THEN "exception"
                        ELSE IF us.raised THEN "exception"
                        ELSE IF FindItem(Items, item) = 0 THEN "exception"
                        ELSE "success"
         IN
         /\ Items' = IF outcome = "success" THEN us.items ELSE Items
         /\ Purchases' =
              IF outcome = "success"
              THEN Append(Purchases,
                          [Date |-> "now", Supplier |-> "",
                           ItemID |-> FindItem(Items, item), Unit |-> unit,
                           Qty |-> RealAffinity(qty), Rate |-> RealAffinity(rate)])
              ELSE Purchases
         /\ ledger' = IF outcome = "success"
                      THEN LedgerAfterTxn(ledger, Items, item, unit, Float(qty))
                      ELSE ledger
         /\ last' = [op |-> "add_stock", item |-> item, unit |-> unit, qty |-> qty,
                     rate |-> rate, outcome |-> outcome,
                     calls |-> IF valid /\ CanFloat(qty)
                               THEN <<[item |-> item, unit |-> unit, q |-> Float(qty)]>>
                               ELSE <<>>]
         /\ UNCHANGED <<Customers, StockAdjustments, Settings, BillNumbers,
                        bill_no, table, summary, lastPrinted>>

\* ----------------------------------------------------- StockAdjustDialog
\* StockTab.adjust_stock opens the dialog on a listed item; OK pressed
AdjustAccept ==
    /\ Tick
    /\ \E i \in 1..Len(Items), qty \in AdjQtyTexts, unit \in UnitTexts,
          reason \in ReasonTexts :
         LET item == Items[i].Name
             valid == ~IsEmptyText(qty) /\ reason # ""
             us == UpdateStock(Items, item, unit, Float(qty))
             outcome == IF ~valid THEN "validation"
                        ELSE IF ~CanFloat(qty) THEN "exception"
                        ELSE IF us.raised THEN "exception"
                        ELSE "accepted"
         IN
         /\ Items' = IF outcome = "accepted" THEN us.items ELSE Items
         /\ StockAdjustments' =
              IF outcome = "accepted"
              THEN Append(StockAdjustments,
                          [Date |-> "now", ItemID |-> FindItem(Items, item),
                           QtyChange |-> RealAffinity(qty), Unit |-> unit,
                           Reason |-> reason])
              ELSE StockAdjustments
         /\ ledger' = IF outcome = "accepted"
                      THEN LedgerAfterTxn(ledger, Items, item, unit, Float(qty))
                      ELSE ledger
         /\ last' = [op |-> "StockAdjustDialog.accept", item |-> item, unit |-> unit,
                     qty |-> qty, reason |-> reason, outcome |-> outcome,
                     calls |-> IF valid /\ CanFloat(qty)
                               THEN <<[item |-> item, unit |-> unit, q |-> Float(qty)]>>
                               ELSE <<>>]
         /\ UNCHANGED <<Customers, Purchases, Settings, BillNumbers,
                        bill_no, table, summary, lastPrinted>>

\* -------------------------------------------------------------- StockTab
\* float(val) if val not in ("", None) else 0 ; raises on any other text
CanCellNumber(c) == c.k = "real" \/ IsEmptyText(c)

\* load_stock: the StockQty cell of this row gets the red background
Highlighted(row) ==
    /\ CanCellNumber(row.StockQty) /\ CanCellNumber(row.AlertLevel)
    /\ ~RPos(RAdd(SqlNum(row.StockQty), RNeg(SqlNum(row.AlertLevel))))

\* StockTab.load_stock (the stock tab is refreshed)
LoadStock ==
    /\ Tick
    /\ last' = [op |-> "load_stock",
                red |-> [i \in 1..Len(Items) |-> Highlighted(Items[i])]]
    /\ UNCHANGED <<Items, Customers, Purchases, StockAdjustments, Settings,
                   BillNumbers, bill_no, table, summary, lastPrinted, ledger>>

\* ------------------------------------------------------------ BillingTab
BillQtyTexts == {Empty, Junk, NumTxt(RInt(2))}

\* Python round(x, 2): nearest multiple of 1/100, ties to the even one
Round2(x) ==
    LET f == (100 * x[1]) \div x[2]
        rem == 100 * x[1] - f * x[2]
    IN  IF 2 * rem < x[2] THEN Rat(f, 100)
        ELSE IF 2 * rem > x[2] THEN Rat(f + 1, 100)
        ELSE IF f % 2 = 0 THEN Rat(f, 100) ELSE Rat(f + 1, 100)

\* f"{x}" of a value fetched from a REAL column
FormatCell(c) == IF c.k = "real" THEN NumTxt(c.v) ELSE c

\* try: float(text) except: 0
FloatOrZero(t) == IF CanFloat(t) THEN Float(t) ELSE Zero

EmptyRateCombo(blocked) == [w |-> "combo", rates |-> <<>>, idx |-> 0 - 1, blocked |-> blocked]

\* the text after the rupee sign of the rate widget's current text
RateText(rw) ==
    IF rw.w = "combo"
    THEN IF rw.idx >= 0 /\ rw.idx < Len(rw.rates) THEN rw.rates[rw.idx + 1] ELSE Empty
    ELSE rw.text

\* add_item_row: the new row's lambdas capture row = rowCount() (0-based)
AddItemRow(t) ==
    Append(t, [item |-> "", unit |-> "", units |-> <<>>,
               rate |-> EmptyRateCombo(FALSE), qty |-> NumTxt(RInt(1)),
               total |-> NumTxt(Zero), cb |-> Len(t)])

RECURSIVE SumTotals(_, _)
SumTotals(t, k) ==
    IF k = 0 THEN Zero ELSE RAdd(SumTotals(t, k - 1), Float(t[k].total))

RECURSIVE SumQtys(_, _)
SumQtys(t, k) ==
    IF k = 0 THEN Zero
    ELSE RAdd(SumQtys(t, k - 1), FloatOrZero(t[k].qty))

\* update_totals (the discount field keeps its initial "0")
UpdateTotals(t) ==
    [subtotal |-> SumTotals(t, Len(t)), totalqty |-> SumQtys(t, Len(t)),
     grand |-> SumTotals(t, Len(t))]

InSeq(x, sq) == \E k \in 1..Len(sq) : sq[k] = x

\* update_item_row(row, trigger), row 0-based: the table and summary it leaves
\* and whether it ended in an uncaught exception
UpdateItemRow(t, sm, items, r, trigger) ==
    IF r + 1 > Len(t) THEN [table |-> t, summary |-> sm, raised |-> TRUE]
    ELSE
    LET row == t[r + 1]
        i == FindItem(items, row.item)
    IN
    IF row.item = "" \/ i = 0 THEN [table |-> t, summary |-> sm, raised |-> FALSE]
    ELSE
    LET it == items[i]
        units == IF it.SecondaryUnit # "" THEN <<it.BaseUnit, it.SecondaryUnit>>
                 ELSE <<it.BaseUnit>>
        unit == IF InSeq(row.unit, units) THEN row.unit ELSE units[1]
        conv == it.ConversionRate
        tiers == <<it.RateA, it.RateB, it.RateC>>
        secondary == unit = it.SecondaryUnit /\ Truthy(conv)
        typeError == /\ row.rate.w = "combo" /\ secondary
                     /\ \E c \in {conv, it.RateA, it.RateB, it.RateC} : c.k # "real"
        rates == IF secondary
                 THEN [k \in 1..3 |-> NumTxt(Round2(RDiv(tiers[k].v, conv.v)))]
                 ELSE [k \in 1..3 |-> FormatCell(tiers[k])]
        rw == IF row.rate.w = "combo"
              THEN [w |-> "combo", rates |-> rates,
                    idx |-> IF row.rate.idx >= 0 /\ row.rate.idx < 3
                            THEN row.rate.idx ELSE 0,
                    blocked |-> FALSE]
              ELSE row.rate
        total == RMul(FloatOrZero(row.qty), FloatOrZero(RateText(rw)))
        done == [row EXCEPT !.units = units, !.unit = unit, !.rate = rw,
                            !.total = NumTxt(Round2(total))]
        t1 == [t EXCEPT ![r + 1] = done]
        last_row == r = Len(t) - 1
    IN
    IF typeError
    THEN [table |-> [t EXCEPT ![r + 1] =
                        [row EXCEPT !.units = units, !.unit = unit,
                                    !.rate = EmptyRateCombo(TRUE)]],
          summary |-> sm, raised |-> TRUE]
    ELSE IF last_row /\ ~IsEmptyText(row.qty) /\ ~CanFloat(row.qty)
    THEN [table |-> t1, summary |-> UpdateTotals(t1), raised |-> TRUE]
    ELSE IF last_row /\ ~IsEmptyText(row.qty) /\ RPos(Float(row.qty))
    THEN [table |-> AddItemRow(t1), summary |-> UpdateTotals(t1), raised |-> FALSE]
    ELSE [table |-> t1, summary |-> UpdateTotals(t1), raised |-> FALSE]

\* a widget of the row shown at position i (1-based) changes and its signal
\* calls update_item_row with the row number the lambda captured
RowChanged(i, t1, trigger) ==
    LET u == UpdateItemRow(t1, summary, Items, table[i].cb, trigger) IN
    /\ Tick
    /\ table' = u.table
    /\ summary' = u.summary
    /\ last' = [op |-> "update_item_row", pos |-> i, row |-> table[i].cb,
                trigger |-> trigger, raised |-> u.raised]
    /\ UNCHANGED <<Items, Customers, Purchases, StockAdjustments, Settings,
                   BillNumbers, bill_no, lastPrinted, ledger>>

SelectItem ==
    \E i \in 1..Len(table), n \in NameTexts :
         /\ n # table[i].item
         /\ n = "" \/ FindItem(Items, n) # 0
         /\ RowChanged(i, [table EXCEPT ![i].item = n], "item")

SelectUnit ==
    \E i \in 1..Len(table), k \in 1..2 :
         /\ k <= Len(table[i].units)
         /\ table[i].units[k] # table[i].unit
         /\ RowChanged(i, [table EXCEPT ![i].unit = table[i].units[k]], "unit")

SelectRate ==
    \E i \in 1..Len(table), k \in 0..2 :
         /\ table[i].rate.w = "combo"
         /\ ~table[i].rate.blocked
         /\ k < Len(table[i].rate.rates)
         /\ k # table[i].rate.idx
         /\ RowChanged(i, [table EXCEPT ![i].rate.idx = k], "rate")

SetQty ==
    \E i \in 1..Len(table), q \in BillQtyTexts :
         /\ q # table[i].qty
         /\ RowChanged(i, [table EXCEPT ![i].qty = q], "qty")

\* the X button of the row shown at position i: remove_item_row(captured row)
RemoveRow ==
    /\ Tick
    /\ \E i \in 1..Len(table) :
         LET r == table[i].cb
             t1 == IF r + 1 <= Len(table)
                   THEN [k \in 1..(Len(table) - 1) |->
                            IF k < r + 1 THEN table[k] ELSE table[k + 1]]
                   ELSE table
         IN
         /\ table' = t1
         /\ summary' = UpdateTotals(t1)
         /\ last' = [op |-> "remove_item_row", pos |-> i, row |-> r]
         /\ UNCHANGED <<Items, Customers, Purchases, StockAdjustments, Settings,
                        BillNumbers, bill_no, lastPrinted, ledger>>

\* edit_selected_price on the current row (position i), a price typed and
\* confirmed: finish_edit_price(row, edit) puts a label and recomputes the row
EditPrice ==
    \E i \in 1..Len(table), p \in PriceTexts :
         LET t1 == [table EXCEPT ![i].rate = [w |-> "label", text |-> p]]
             u == UpdateItemRow(t1, summary, Items, i - 1, "rate")
         IN
         /\ Tick
         /\ table' = u.table
         /\ summary' = u.summary
         /\ last' = [op |-> "finish_edit_price", pos |-> i, row |-> i - 1,
                     price |-> p, raised |-> u.raised]
         /\ UNCHANGED <<Items, Customers, Purchases, StockAdjustments, Settings,
                        BillNumbers, bill_no, lastPrinted, ledger>>

\* --------------------------------------------------------- print_receipt
Min(a, b) == IF a < b THEN a ELSE b
Max(a, b) == IF a < b THEN b ELSE a

\* len(str(x)) of a float x
FloatStrLen(v) ==
    LET whole == Abs(v[1]) \div v[2]
        sign == IF v[1] < 0 THEN 1 ELSE 0
    IN  sign + Len(IntToDigits(whole)) + 1 +
        (IF (10 * v[1]) % v[2] = 0 THEN 1 ELSE 2)

\* len of a typed numeral, or of str(int(x)) / str(round(x, 2))
NumeralLen(v) ==
    IF v[2] = 1 THEN (IF v[1] < 0 THEN 1 ELSE 0) + Len(IntToDigits(Abs(v[1])))
    ELSE FloatStrLen(v)

TextLen(t) == IF t.k = "text" THEN Len(t.s) ELSE NumeralLen(t.v)

\* s[:w].ljust(w) and s[:w].rjust(w): the width of the field
Field(n, w) == Max(Min(n, w), w)

\* print_receipt: the width of every line, and of every field of an item line
PrintReceipt(billno, customer, lines, totalqty, grand) ==
    LET width == 48
        fields == [k \in 1..Len(lines) |->
                     <<Field(Len(lines[k].item), 16), Field(Len(lines[k].unit), 6),
                       Field(TextLen(lines[k].qty), 6),
                       Field(TextLen(lines[k].rate), 8),
                       Field(TextLen(lines[k].total), 8)>>]
    IN  [fields |-> fields,
         widths |->
           <<width, Max(20, width), width,
             Max(9 + Len(billno), width \div 2)
                + Max(10 + Len(customer), width \div 2),
             6 + 19, width, 16 + 6 + 6 + 8 + 8, width>>
           \o [k \in 1..Len(lines) |->
                 fields[k][1] + fields[k][2] + fields[k][3] + fields[k][4]
                 + fields[k][5]]
           \o <<width,
                Max(11 + FloatStrLen(totalqty), width \div 2)
                + Max(8 + FloatStrLen(grand), width \div 2),
                width, Max(31, width), width>>]

\* ------------------------------------------------------ print_and_finish
\* the rows print_and_finish gathers: item, qty non-empty and float(qty) > 0
IsBillLine(row) == row.item # "" /\ ~IsEmptyText(row.qty) /\ RPos(Float(row.qty))

\* float(qty) raises while gathering (outside the try block)
GatherRaises(t) ==
    \E k \in 1..Len(t) : t[k].item # "" /\ ~IsEmptyText(t[k].qty) /\ ~CanFloat(t[k].qty)

RECURSIVE BillLines(_, _)
BillLines(t, k) ==
    IF k = 0 THEN <<>>
    ELSE IF IsBillLine(t[k])
    THEN Append(BillLines(t, k - 1),
                [item |-> t[k].item, unit |-> t[k].unit, qty |-> t[k].qty,
                 rate |-> RateText(t[k].rate), total |-> t[k].total])
    ELSE BillLines(t, k - 1)

\* for item, unit, qty, rate, total in items: update_stock(item, unit, -float(qty))
RECURSIVE SellLines(_, _, _)
SellLines(items, lines, k) ==
    IF k = 0 THEN [items |-> items, raised |-> FALSE]
    ELSE LET before == SellLines(items, lines, k - 1) IN
         IF before.raised THEN before
         ELSE UpdateStock(before.items, lines[k].item, lines[k].unit,
                          RNeg(Float(lines[k].qty)))

RECURSIVE LedgerAfterSale(_, _, _, _)
LedgerAfterSale(lg, items, lines, k) ==
    IF k = 0 THEN lg
    ELSE LedgerAfterTxn(LedgerAfterSale(lg, items, lines, k - 1),
                        SellLines(items, lines, k - 1).items,
                        lines[k].item, lines[k].unit, RNeg(Float(lines[k].qty)))

\* print_and_finish; printerOk: print_receipt returns instead of raising
PrintAndFinish ==
    /\ Tick
    /\ \E printerOk \in BOOLEAN, customer \in CustomerTexts :
         LET lines == BillLines(table, Len(table))
             sold == SellLines(Items, lines, Len(lines))
             outcome == IF GatherRaises(table) THEN "exception"
                        ELSE IF ~printerOk \/ sold.raised THEN "failed"
                        ELSE "printed"
             nb == GetNextBillNo(Settings)
         IN
         /\ Items' = IF outcome = "exception" \/ ~printerOk THEN Items ELSE sold.items
         /\ Settings' = IF outcome = "printed" THEN nb.settings ELSE Settings
         /\ bill_no' = IF outcome = "printed" THEN IntToDigits(nb.no) ELSE bill_no
         /\ table' = IF outcome = "printed" THEN AddItemRow(<<>>) ELSE table
         /\ summary' = IF outcome = "printed" THEN UpdateTotals(AddItemRow(<<>>))
                       ELSE summary
         /\ lastPrinted' = IF outcome = "printed" THEN DigitsToInt(bill_no)
                           ELSE lastPrinted
         /\ ledger' = IF outcome = "printed"
                      THEN LedgerAfterSale(ledger, Items, lines, Len(lines))
                      ELSE ledger
         /\ last' = [op |-> "print_and_finish", outcome |-> outcome,
                     bill_no |-> bill_no,
                     lines |-> IF outcome = "exception" THEN <<>> ELSE lines,
                     receipt |-> IF outcome = "exception" \/ ~printerOk
                                 THEN [fields |-> <<>>, widths |-> <<>>]
                                 ELSE PrintReceipt(bill_no, customer, lines,
                                                   summary.totalqty, summary.grand),
                     calls |-> IF outcome = "printed"
                               THEN [k \in 1..Len(lines) |->
                                       [item |-> lines[k].item, unit |-> lines[k].unit,
                                        q |-> RNeg(Float(lines[k].qty))]]
                               ELSE <<>>]
         /\ UNCHANGED <<Customers, Purchases, StockAdjustments, BillNumbers>>

\* ----------------------------------------------------------- application
NoSummary == [subtotal |-> Zero, totalqty |-> Zero, grand |-> Zero]

\* __main__ on the store as it is: init_db(), then MainWindow(), whose
\* BillingTab takes a bill number and adds the first row
Launched(settings) == GetNextBillNo(InitDb(settings))

\* the window is closed (or the process dies) and the application is run again
Restart ==
    /\ Tick
    /\ Settings' = Launched(Settings).settings
    /\ bill_no' = IntToDigits(Launched(Settings).no)
    /\ table' = AddItemRow(<<>>)
    /\ summary' = NoSummary
    /\ last' = [op |-> "restart", bill_no |-> Launched(Settings).no]
    /\ UNCHANGED <<Items, Customers, Purchases, StockAdjustments, BillNumbers,
                   lastPrinted, ledger>>

\* the first run of the application on an empty database file
Init ==
    /\ Items = <<>>
    /\ Customers = <<>>
    /\ Purchases = <<>>
    /\ StockAdjustments = <<>>
    /\ Settings = Launched([k \in {} |-> <<>>]).settings
    /\ BillNumbers = {}
    /\ bill_no = IntToDigits(Launched([k \in {} |-> <<>>]).no)
    /\ table = AddItemRow(<<>>)
    /\ summary = NoSummary
    /\ last = [op |-> "launch", bill_no |-> Launched([k \in {} |-> <<>>]).no]
    /\ ops = 0
    /\ lastPrinted = 0
    /\ ledger = <<>>
    /\ budget = MaxOps

Next ==
    \/ Restart
    \/ AddItemAccept
    \/ EditItemAccept
    \/ CustomerAccept
    \/ AddStock
    \/ AdjustAccept
    \/ SelectItem
    \/ SelectUnit
    \/ SelectRate
    \/ SetQty
    \/ RemoveRow
    \/ EditPrice
    \/ LoadStock
    \/ PrintAndFinish

Spec == Init /\ [][Next]_vars

\* the billing tab of a shop that has just stored its first item: the state
\* after Init and one ItemsTab.add_item
InitBilling ==
    \E f \in {g \in ValidItemForms : g.name = "rice" /\ g.code = ""} :
        /\ Items = ItemAccept(<<>>, f).items
        /\ ledger = LedgerAfterSave(<<>>, <<>>, f, "inserted")
        /\ last = [op |-> "ItemDialog.accept", mode |-> "add", name |-> f.name,
                   code |-> f.code, required |-> TRUE,
                   optionalsBlank |-> OptionalsBlank(f), outcome |-> "inserted"]
        /\ Customers = <<>>
        /\ Purchases = <<>>
        /\ StockAdjustments = <<>>
        /\ Settings = Launched([k \in {} |-> <<>>]).settings
        /\ BillNumbers = {}
        /\ bill_no = IntToDigits(Launched([k \in {} |-> <<>>]).no)
        /\ table = AddItemRow(<<>>)
        /\ summary = NoSummary
        /\ ops = 0
        /\ lastPrinted = 0
        /\ budget = MaxBillOps

NextBilling ==
    \/ SelectItem
    \/ SelectUnit
    \/ SelectRate
    \/ SetQty
    \/ RemoveRow
    \/ EditPrice
    \/ PrintAndFinish

SpecBilling == InitBilling /\ [][NextBilling]_vars

\* ================================================================ claims
BillNoOf(settings) == DigitsToInt(settings["LastBillNo"])

\* the step ran get_next_bill_no (a restart, or a print that succeeded)
TookBillNo ==
    \/ last'.op = "restart"
    \/ last'.op = "print_and_finish" /\ last'.outcome = "printed"

\* C1: get_next_bill_no on a persisted LastBillNo of n returns n + 1 (the number
\* the bill label then shows) and leaves LastBillNo = n + 1; the first call on
\* a freshly initialised store returns 1001.
C1_Sequential ==
    /\ (ops = 0 => bill_no = <<1, 0, 0, 1>> /\ Settings["LastBillNo"] = <<1, 0, 0, 1>>)
    /\ [][TookBillNo =>
            /\ DigitsToInt(bill_no') = BillNoOf(Settings) + 1
            /\ BillNoOf(Settings') = BillNoOf(Settings) + 1]_vars

\* C1 witness: three successive calls have returned 1001, 1002, 1003
C1_Witness ==
    /\ last.op \in {"restart", "print_and_finish"}
    /\ bill_no = <<1, 0, 0, 3>>
    /\ Settings["LastBillNo"] = <<1, 0, 0, 3>>

\* C2: every printed bill's number is one more than the number of the bill
\* printed before it, whatever failed prints and restarts lie between.
C2_PrintedSequential ==
    [][(/\ last'.op = "print_and_finish"
        /\ last'.outcome = "printed"
        /\ lastPrinted # 0)
       => lastPrinted' = lastPrinted + 1]_vars

\* C3: every item's StockQty is its opening stock (as first entered, or as
\* entered by the latest save) plus purchases and adjustments minus sales, in
\* base units.
C3_StockInSync ==
    \A i \in 1..Len(Items) :
        \/ SqlNum(Items[i].StockQty) = RAdd(ledger[i].first, ledger[i].txn)
        \/ SqlNum(Items[i].StockQty) = RAdd(ledger[i].latest, ledger[i].txn)

\* the handler of the step called update_stock exactly once
OneStockCall ==
    /\ last'.op \in {"add_stock", "StockAdjustDialog.accept", "print_and_finish"}
    /\ Len(last'.calls) = 1

NonZeroRate(c) == c.k = "real" /\ c.v # Zero

\* Items' is Items with delta added to the StockQty of row i and nothing else
OnlyStockRaised(i, delta) ==
    /\ Len(Items') = Len(Items)
    /\ \A j \in 1..Len(Items) :
         Items'[j] = IF j = i
                     THEN [Items[j] EXCEPT !.StockQty = Real(RAdd(SqlNum(@), delta))]
                     ELSE Items[j]

\* C4 as claimed: q is added unchanged when unit is the base unit, q divided by
\* ConversionRate when unit is the secondary unit and the rate is non-zero;
\* nothing else changes; an unknown name changes nothing.
C4_AsClaimed ==
    [][OneStockCall =>
        LET c == last'.calls[1]
            i == FindItem(Items, c.item)
        IN  IF i = 0 THEN Items' = Items
            ELSE /\ c.unit = Items[i].BaseUnit => OnlyStockRaised(i, c.q)
                 /\ (c.unit = Items[i].SecondaryUnit /\ NonZeroRate(Items[i].ConversionRate))
                      => OnlyStockRaised(i, RDiv(c.q, Items[i].ConversionRate.v))]_vars

\* C4 amended: q divided by ConversionRate is added when unit is the secondary
\* unit and the rate is a non-zero number (also when that unit is the base
\* unit as well); nothing is changed (update_stock raises) when unit is the
\* secondary unit and the rate is a non-empty text that is no number; q is
\* added unchanged in every other case; nothing else changes; an unknown name
\* changes nothing.
C4_Amended ==
    [][OneStockCall =>
        LET c == last'.calls[1]
            i == FindItem(Items, c.item)
        IN  IF i = 0 THEN Items' = Items
            ELSE IF c.unit = Items[i].SecondaryUnit /\ NonZeroRate(Items[i].ConversionRate)
            THEN OnlyStockRaised(i, RDiv(c.q, Items[i].ConversionRate.v))
            ELSE IF /\ c.unit = Items[i].SecondaryUnit
                    /\ Items[i].ConversionRate.k = "text"
                    /\ ~IsEmptyText(Items[i].ConversionRate)
            THEN Items' = Items
            ELSE OnlyStockRaised(i, c.q)]_vars

\* C4 witness: update_stock has converted a quantity given in a secondary unit
\* that differs from the base unit
C4_Witness ==
    /\ last.op \in {"add_stock", "StockAdjustDialog.accept"}
    /\ Len(last.calls) = 1
    /\ \E i \in 1..Len(Items) :
         /\ Items[i].Name = last.item
         /\ Items[i].SecondaryUnit = last.unit
         /\ Items[i].BaseUnit # last.unit
         /\ NonZeroRate(Items[i].ConversionRate)
         /\ SqlNum(Items[i].StockQty) # ledger[i].first

\* C5: a print_and_finish that succeeds with at least one bill line leaves a
\* row in the store recording the sale, as a purchase leaves a Purchases row.
C5_SaleRecorded ==
    [][(/\ last'.op = "print_and_finish"
        /\ last'.outcome = "printed"
        /\ Len(last'.lines) > 0)
       => \/ Len(Purchases') > Len(Purchases)
          \/ Len(StockAdjustments') > Len(StockAdjustments)
          \/ Len(Customers') > Len(Customers)
          \/ BillNumbers' # BillNumbers]_vars

\* the quantity q given in unit, in the base unit of row
InBaseUnit(row, unit, q) ==
    IF unit = row.SecondaryUnit /\ NonZeroRate(row.ConversionRate)
    THEN RDiv(q, row.ConversionRate.v)
    ELSE q

\* C6: add_stock with item, unit and qty non-empty inserts one Purchases row
\* with the item's ItemID and the entered unit, qty and rate and raises the
\* item's StockQty by the quantity in base units; with one of them empty it
\* inserts no row and changes no stock.
C6_PurchaseLogged ==
    [][last'.op = "add_stock" =>
        IF last'.item # "" /\ last'.unit # "" /\ ~IsEmptyText(last'.qty)
        THEN /\ Len(Purchases') = Len(Purchases) + 1
             /\ SubSeq(Purchases', 1, Len(Purchases)) = Purchases
             /\ FindItem(Items, last'.item) # 0
             /\ Purchases'[Len(Purchases')].ItemID = FindItem(Items, last'.item)
             /\ Purchases'[Len(Purchases')].Unit = last'.unit
             /\ Purchases'[Len(Purchases')].Qty = RealAffinity(last'.qty)
             /\ Purchases'[Len(Purchases')].Rate = RealAffinity(last'.rate)
             /\ CanFloat(last'.qty)
             /\ OnlyStockRaised(FindItem(Items, last'.item),
                                InBaseUnit(Items[FindItem(Items, last'.item)],
                                           last'.unit, Float(last'.qty)))
        ELSE Purchases' = Purchases /\ Items' = Items]_vars

\* C7: StockAdjustDialog.accept with quantity and reason non-empty inserts one
\* StockAdjustments row for the item and changes that item's StockQty by the
\* quantity in base units, and no other item's.
C7_AdjustmentLogged ==
    [][(/\ last'.op = "StockAdjustDialog.accept"
        /\ ~IsEmptyText(last'.qty)
        /\ last'.reason # "")
       => /\ Len(StockAdjustments') = Len(StockAdjustments) + 1
          /\ SubSeq(StockAdjustments', 1, Len(StockAdjustments)) = StockAdjustments
          /\ StockAdjustments'[Len(StockAdjustments')].ItemID = FindItem(Items, last'.item)
          /\ CanFloat(last'.qty)
          /\ OnlyStockRaised(FindItem(Items, last'.item),
                             InBaseUnit(Items[FindItem(Items, last'.item)],
                                        last'.unit, Float(last'.qty)))]_vars

\* C8: ItemDialog.accept with Name, Base Unit or Rate A empty, CustomerDialog
\* .accept with Name empty and StockAdjustDialog.accept with quantity or reason
\* empty warn, leave every table unchanged and do not accept the dialog.
C8_ValidationFirst ==
    [][(\/ last'.op = "ItemDialog.accept" /\ ~last'.required
        \/ last'.op = "CustomerDialog.accept" /\ last'.name = ""
        \/ /\ last'.op = "StockAdjustDialog.accept"
           /\ (IsEmptyText(last'.qty) \/ last'.reason = ""))
       => /\ last'.outcome = "validation"
          /\ store' = store]_vars

\* C8 witness: a dialog with a required field empty was refused on a store
\* that holds an item and a customer
C8_Witness ==
    /\ last.op \in {"ItemDialog.accept", "StockAdjustDialog.accept"}
    /\ last.outcome = "validation"
    /\ Len(Items) > 0
    /\ Len(Customers) > 0

\* C9: ItemDialog.accept with Name, Base Unit and Rate A filled, a Name no
\* stored item has and every optional field blank saves the new item.
C9_BlankCodeSaved ==
    [][(/\ last'.op = "ItemDialog.accept"
        /\ last'.required
        /\ last'.optionalsBlank
        /\ FindItem(Items, last'.name) = 0)
       => /\ last'.outcome = "inserted"
          /\ FindItem(Items', last'.name) # 0]_vars

\* C10: opening a stored item in ItemDialog and accepting without an edit
\* leaves every column of the item as it was.
C10_RoundTrip ==
    [][(last'.op = "ItemDialog.accept" /\ last'.mode = "edit") => Items' = Items]_vars

\* the handler that ran last was update_item_row, on a row that exists, holds a
\* stored item whose ConversionRate is a number or blank, and offers its rates
\* in a combo box
RateTiersCase ==
    /\ last.op = "update_item_row"
    /\ last.row + 1 <= Len(table)
    /\ FindItem(Items, table[last.row + 1].item) # 0
    /\ table[last.row + 1].rate.w = "combo"
    /\ CanCellNumber(Items[FindItem(Items, table[last.row + 1].item)].ConversionRate)

\* C11: after update_item_row, the row offers three rate tiers: the item's
\* rates divided by ConversionRate (rounded to 2 decimals) when the row's unit
\* is the secondary unit and ConversionRate is non-zero, the item's rates
\* otherwise; and the row's total is its quantity times the selected rate.
C11_TiersAndTotal ==
    RateTiersCase =>
        LET row == table[last.row + 1]
            it == Items[FindItem(Items, row.item)]
            tiers == <<it.RateA, it.RateB, it.RateC>>
            divided == row.unit = it.SecondaryUnit /\ NonZeroRate(it.ConversionRate)
        IN
        /\ Len(row.rate.rates) = 3
        /\ \A k \in 1..3 :
             tiers[k].k = "real" =>
                /\ row.rate.rates[k].k = "numtext"
                /\ row.rate.rates[k].v =
                      IF divided
                      THEN Round2(RDiv(tiers[k].v, it.ConversionRate.v))
                      ELSE tiers[k].v
        /\ FloatOrZero(row.total) =
              RMul(FloatOrZero(row.qty), FloatOrZero(RateText(row.rate)))

\* C12: every line of a receipt print_receipt produced is at most 48
\* characters wide, and the item, unit, qty, rate and total fields of every
\* item line are exactly 16, 6, 6, 8 and 8 characters wide.
C12_FixedWidth ==
    (last.op = "print_and_finish" /\ Len(last.receipt.widths) > 0) =>
        /\ \A k \in 1..Len(last.receipt.widths) : last.receipt.widths[k] <= 48
        /\ \A k \in 1..Len(last.receipt.fields) :
             last.receipt.fields[k] = <<16, 6, 6, 8, 8>>

\* what the first k bill lines take from the stock of the item called name,
\* in its base unit
RECURSIVE SoldOf(_, _, _, _)
SoldOf(lines, k, row, name) ==
    IF k = 0 THEN Zero
    ELSE RAdd(SoldOf(lines, k - 1, row, name),
              IF lines[k].item = name
              THEN InBaseUnit(row, lines[k].unit, Float(lines[k].qty))
              ELSE Zero)

\* a step of print_and_finish is all or nothing
AllOrNothingStep ==
    /\ (last'.op = "print_and_finish" /\ last'.outcome = "failed") =>
          /\ Items' = Items
          /\ bill_no' = bill_no
          /\ Settings' = Settings
          /\ table' = table
    /\ (last'.op = "print_and_finish" /\ last'.outcome = "printed") =>
          /\ Len(Items') = Len(Items)
          /\ \A i \in 1..Len(Items) :
               SqlNum(Items'[i].StockQty) =
                  RAdd(SqlNum(Items[i].StockQty),
                       RNeg(SoldOf(last'.lines, Len(last'.lines), Items[i],
                                   Items[i].Name)))

\* C13: a print_and_finish that ends with "Printing failed" leaves every
\* StockQty, the displayed and the stored bill number and the rows of the
\* table as they were; one that ends with "Bill printed and stock updated"
\* has lowered every item's StockQty by what the bill's lines sold of it.
C13_AllOrNothing == [][AllOrNothingStep]_vars

\* C14: when the dialog opened by ItemsTab.add_item is accepted with the
\* required fields filled and a Name or a Code that a stored item already
\* has, the duplicate warning is shown and the Items table is unchanged.
C14_DuplicateRefused ==
    [][(/\ last'.op = "ItemDialog.accept"
        /\ last'.mode = "add"
        /\ last'.required
        /\ \/ FindItem(Items, last'.name) # 0
           \/ CodeTaken(Items, last'.code, ""))
       => (last'.outcome = "duplicate" /\ Items' = Items)]_vars

\* C15: init_db on an initialised store leaves LastBillNo as it is, and a
\* restart of the application changes no row of Items, Customers, Purchases
\* and StockAdjustments and never takes the bill counter back.
C15_InitDbIdempotent ==
    /\ [](InitDb(Settings) = Settings)
    /\ [][last'.op = "restart" =>
            /\ Items' = Items
            /\ Customers' = Customers
            /\ Purchases' = Purchases
            /\ StockAdjustments' = StockAdjustments
            /\ BillNoOf(InitDb(Settings)) = BillNoOf(Settings)
            /\ BillNoOf(Settings') > BillNoOf(Settings)]_vars

\* C15 witness: the application was restarted on a store that holds an item
\* and whose counter had moved on after a printed bill
C15_Witness ==
    /\ last.op = "restart"
    /\ Len(Items) > 0
    /\ BillNoOf(Settings) = FirstBillNo + 3

\* C16: load_stock gives the stock cell of an item the red background
\* exactly when its StockQty is below its AlertLevel, a blank value counting
\* as 0; stock equal to or above the alert level is not highlighted.
C16_RedWhenBelow ==
    last.op = "load_stock" =>
        \A i \in 1..Len(Items) :
            last.red[i] <=>
                RPos(RAdd(SqlNum(Items[i].AlertLevel), RNeg(SqlNum(Items[i].StockQty))))

\* a widget or the X button of the row shown at position last'.pos fired: the
\* handler ran on that row, and the X button removed that row and no other
OwnRowStep ==
    /\ last'.op = "update_item_row" => last'.row = last'.pos - 1
    /\ last'.op = "remove_item_row" =>
          /\ last'.row = last'.pos - 1
          /\ table' = [k \in 1..(Len(table) - 1) |->
                         IF k < last'.pos THEN table[k] ELSE table[k + 1]]

\* C18: whatever rows were added and removed before, a change of a row's
\* item, unit, rate or quantity widget runs update_item_row on that row, and
\* a row's X button removes that row and no other.
C18_OwnRow == [][OwnRowStep]_vars

\* the row holds a stored item and a custom price, and its total is its
\* quantity times that price
PricedRowOk(row) ==
    (row.rate.w = "label" /\ FindItem(Items, row.item) # 0) =>
        FloatOrZero(row.total) = RMul(FloatOrZero(row.qty), Float(row.rate.text))

\* the custom price of a row is its rate: right after it was entered, after a
\* change of the row's quantity or unit, and on the printed bill
CustomPriceStep ==
    /\ (last'.op = "finish_edit_price" /\ last'.pos <= Len(table')) =>
          /\ table'[last'.pos].rate = [w |-> "label", text |-> last'.price]
          /\ PricedRowOk(table'[last'.pos])
    /\ (/\ last'.op = "update_item_row"
        /\ last'.trigger \in {"qty", "unit"}
        /\ last'.pos <= Len(table')) =>
          PricedRowOk(table'[last'.pos])
    /\ (last'.op = "print_and_finish" /\ last'.outcome # "exception") =>
          \A i \in 1..Len(table) :
              (table[i].rate.w = "label" /\ IsBillLine(table[i])) =>
                  \E k \in 1..Len(last'.lines) :
                      /\ last'.lines[k].item = table[i].item
                      /\ last'.lines[k].qty = table[i].qty
                      /\ last'.lines[k].rate = table[i].rate.text

\* C17: once a custom price p is entered on a row that has an item, the
\* row's total is quantity times p right away and after every later change
\* of that row's quantity or unit, and print_and_finish prints p as its rate.
C17_CustomPrice == [][CustomPriceStep]_vars
====
